---- MODULE Spec2Model ----
(***************************************************************************)
(* A model of the analysis notebooks of scrna-parameter-estimation:        *)
(*   - the sampled power analysis notebook        (src/unnamed/part_000),   *)
(*   - the simulation-data generation notebook    (src/unnamed/part_001),   *)
(*   - the SAVER correlation comparison notebook  (saver_comparison.ipynb). *)
(* Every notebook is a sequence of cells run top to bottom; an uncaught     *)
(* exception halts the run.  Each notebook has its own specification.       *)
(***************************************************************************)
EXTENDS Integers, Sequences, FiniteSets, TLC

(***************************************************************************)
(* Bounds of the model.                                                    *)
(***************************************************************************)
\* number of entries of num_inds enumerated (the code lists four)
NumInds == 2
\* num_resample (the code sets 10)
NumResample == 2
\* largest number of rows of an estimator (memento) csv file
MaxMemRows == 1
\* largest number of rows of a differential-expression (Matrix eQTL) file
MaxMeqRows == 2
\* number of cells of the interferon data set
NumSourceCells == 3
\* n_obs of the control and of the stimulated subsample (the code asks for 1000)
NObs == 1
\* replicates of the downsampling loop (the code runs range(10))
NumReplicates == 2
\* n_cells of the subsampling loop (the code sets 250)
NCells == 1
\* replicates of the subsampling loop (the code runs range(10))
NumSampleReplicates == 2
\* the SAVER notebook: the gene count its loop is written for (12241 in the notebook)
NumGenes == 2
\* the tables drop_zero_col is applied to
MaxDfCols == 3
MaxDfRows == 2

(***************************************************************************)
(* Generic helpers.                                                        *)
(***************************************************************************)
\* all sequences over S of length at most n
RECURSIVE SeqsUpTo(_, _)
SeqsUpTo(S, n) ==
    IF n = 0 THEN {<<>>}
    ELSE LET shorter == SeqsUpTo(S, n - 1)
         IN  shorter \cup {Append(s, x) : s \in {t \in shorter : Len(t) = n - 1}, x \in S}

\* the concatenation of the sequences f(1), ..., f(n)
RECURSIVE FlatMap(_, _)
FlatMap(f, n) == IF n = 0 THEN <<>> ELSE FlatMap(f, n - 1) \o f[n]

\* the elements of a sequence
Range(s) == {s[i] : i \in 1..Len(s)}

(***************************************************************************)
(*                 THE SAMPLED POWER ANALYSIS NOTEBOOK                     *)
(***************************************************************************)
VARIABLES
    pc,               \* the cell (and statement of the loop body) to run next
    cts,              \* the global cts
    onek_cg_cov,      \* the cg_cov column of onek_replication
    loop,             \* the loop variables pop, num_ind, resample, ct (as indices)
    meq, mem, merged, \* the globals of the loop body
    result_df,        \* [kind: "list" or "DataFrame", rows: the records]
    opened,           \* the read_csv calls in order: [path, found: whether the file exists]
    exceptional,      \* whether the one exceptional condition was met: see ReadMeq
    figures,          \* the figure files written
    exception         \* the uncaught exception that halted the run, or "none"

powerVars == <<pc, cts, onek_cg_cov, loop, meq, mem, merged, result_df, opened,
               exceptional, figures, exception>>

\* the simulation-data notebook
VARIABLES
    sim_pc,           \* the statement to run next
    sim_exception,    \* the uncaught exception that halted the run, or "none"
    dataset,          \* the cells the interferon h5ad input files hold
    ifn_adata, ctrl_subset, stim_subset, subset, original_data,
    sim_loop,         \* the loop variables subsample_rate (as an index) and replicate
    X_subsample, subset_norm,
    adata, adata_sample,
    written           \* the files written, in order: [path, content]

simVars == <<sim_pc, sim_exception, dataset, ifn_adata, ctrl_subset, stim_subset, subset,
             original_data, sim_loop, X_subsample, subset_norm, adata, adata_sample,
             written>>

\* the SAVER comparison notebook
VARIABLES
    saver_pc,         \* the statement to run next
    saver_exception,  \* the R error that halted the run, or "none"
    dropseq_data,     \* the count matrix, genes by cells
    saver_obj,        \* [estimate, se]: the matrices saver() returned
    rds_file,         \* the object saved as saver_melanoma.rds
    sf, adj_vec,
    adj_i,            \* the loop variable i
    scale_factor, temp_cor, saver_cor,
    csv_written       \* the csv files written, in order: [path, content]

saverVars == <<saver_pc, saver_exception, dropseq_data, saver_obj, rds_file, sf, adj_vec,
               adj_i, scale_factor, temp_cor, saver_cor, csv_written>>

\* the helper functions, applied on their own
VARIABLES
    df,                   \* the table drop_zero_col is called with
    dzc_pc,               \* "call", "again" or "done"
    zero_dropped,         \* drop_zero_col(df)
    zero_dropped_twice,   \* drop_zero_col(drop_zero_col(df))
    conditions,           \* two loop conditions, each with the template it is formatted by
    formatted             \* the two paths the templates give, once formatted

callVars == <<df, dzc_pc, zero_dropped, zero_dropped_twice, conditions, formatted>>

vars == <<powerVars, simVars, saverVars, callVars>>

EmptyFrame == [columns |-> <<>>, rows |-> <<>>]
\* no function called on its own
NoCalls ==
    /\ df = EmptyFrame
    /\ dzc_pc = "call" /\ zero_dropped = EmptyFrame /\ zero_dropped_twice = EmptyFrame
    /\ conditions = <<>> /\ formatted = <<>>

\* the SAVER notebook before its first cell has run
SaverNotStarted ==
    /\ saver_pc = "read_dropseq"
    /\ saver_exception = "none"
    /\ dropseq_data = <<>> /\ saver_obj = <<>> /\ rds_file = <<>>
    /\ sf = <<>> /\ adj_vec = <<>> /\ adj_i = 0
    /\ scale_factor = <<>> /\ temp_cor = <<>> /\ saver_cor = <<>>
    /\ csv_written = <<>>

\* an AnnData variable not assigned yet
Unassigned == [obs |-> <<>>, var |-> <<>>, X |-> <<>>, transform |-> <<>>]

\* the simulation-data notebook before its first cell has run (dataset aside)
SimNotStarted ==
    /\ sim_pc = "read_ifn"
    /\ sim_exception = "none"
    /\ ifn_adata = Unassigned /\ ctrl_subset = Unassigned /\ stim_subset = Unassigned
    /\ subset = Unassigned /\ subset_norm = Unassigned
    /\ adata = Unassigned /\ adata_sample = Unassigned
    /\ original_data = <<>> /\ X_subsample = <<>>
    /\ sim_loop = [rate |-> 1, replicate |-> 0]
    /\ written = <<>>

\* the notebooks are run one at a time: a cell of one leaves the others' globals alone
OnlyPower == UNCHANGED <<simVars, saverVars, callVars>>
OnlySim == UNCHANGED <<powerVars, saverVars, callVars>>
OnlySaver == UNCHANGED <<powerVars, simVars, callVars>>
OnlyCalls == UNCHANGED <<powerVars, simVars, saverVars>>

\* ---- configuration cell ----
data_path == "/data_volume/memento/lupus/"
AllNumInds == <<50, 60, 70, 80>>
num_inds == SubSeq(AllNumInds, 1, NumInds)
num_resample == NumResample
InitialCts == <<"B", "T8", "T4", "NK", "cM", "ncM">>
pops == <<"asian">>
\* the cell types the figure cell plots
PlottedCts == <<"T4", "B", "cM", "NK">>

\* the significance threshold 0.05, in hundredths
Alpha == 5
\* the p-values of the input files, in hundredths: below, at and above the threshold
PVals == {4, 5}
\* the (SNP, gene) pairs of the input files
KeyPairs == {<<"rs1", "g1">>, <<"rs1", "g2">>}

\* ---- the input files ----
MemRows == {[tx |-> k[1], gene |-> k[2], de_pval |-> p] : k \in KeyPairs, p \in PVals}
MeqRows == {[SNP |-> k[1], gene |-> k[2], pvalue |-> p] : k \in KeyPairs, p \in PVals}
MemTables == SeqsUpTo(MemRows, MaxMemRows)
MeqTables == SeqsUpTo(MeqRows, MaxMeqRows)
DefaultMem == <<[tx |-> "rs1", gene |-> "g1", de_pval |-> 4]>>
DefaultMeq == <<[SNP |-> "rs1", gene |-> "g1", pvalue |-> 4]>>
\* the contents the replication table's cg_cov column is drawn from
CgCovInputs == {<<>>, <<"B">>, <<"B", "B">>, <<"T4", "B", "T4">>, <<"pDC">>}

\* ---- pandas ----
(* (mutant) the column as a list, duplicates kept *)
drop_duplicates_kept(s) == s

\* Series.drop_duplicates().tolist(): first occurrences, in order
RECURSIVE drop_duplicates(_)
drop_duplicates(s) ==
    IF s = <<>> THEN <<>>
    ELSE LET front == drop_duplicates(SubSeq(s, 1, Len(s) - 1))
             last  == s[Len(s)]
         IN  IF last \in Range(front) THEN front ELSE Append(front, last)

\* mem.rename(columns={'tx':'SNP'})
RenameTx(tbl) ==
    [i \in 1..Len(tbl) |-> [SNP |-> tbl[i].tx, gene |-> tbl[i].gene, de_pval |-> tbl[i].de_pval]]

\* the rows of a left join for one left row: one row per match of the right table, in
\* the right table's order, or one row with a NaN p-value (the empty set) when none
RECURSIVE MatchesOf(_, _)
MatchesOf(l, right) ==
    IF right = <<>> THEN <<>>
    ELSE LET r == Head(right)
             rest == MatchesOf(l, Tail(right))
         IN  IF r.SNP = l.SNP /\ r.gene = l.gene
             THEN <<[SNP |-> l.SNP, gene |-> l.gene, de_pval |-> l.de_pval,
                     pvalue |-> {r.pvalue}]>> \o rest
             ELSE rest

LeftRows(l, right) ==
    LET m == MatchesOf(l, right)
    IN  IF m = <<>>
        THEN <<[SNP |-> l.SNP, gene |-> l.gene, de_pval |-> l.de_pval, pvalue |-> {}]>>
        ELSE m

\* left.merge(right, on=['SNP', 'gene'], how='left')
Merge(left, right) ==
    FlatMap([i \in 1..Len(left) |-> LeftRows(left[i], right)], Len(left))

\* merged[merged['p-value'] < 0.05].shape[0]: a NaN compares False
SigPseudobulk(tbl) == Cardinality({i \in 1..Len(tbl) : \E v \in tbl[i].pvalue : v < Alpha})
\* mem.query('de_pval < 0.05').shape[0]
SigMemento(tbl) == Cardinality({i \in 1..Len(tbl) : tbl[i].de_pval < Alpha})

\* a / b of two Python ints with b # 0, kept as the exact fraction
Divide(a, b) == [num |-> a, den |-> b]

\* ---- paths ----
(* (mutant) the template without its last field *)
MeqPath_noResample(pop, ct, num_ind, resample) ==
    <<data_path, "mateqtl_output/sampled/", pop, "_", ct, "_", ToString(num_ind), ".out">>

MeqPath(pop, ct, num_ind, resample) ==
    <<data_path, "mateqtl_output/sampled/", pop, "_", ct, "_", ToString(num_ind), "_",
      ToString(resample), ".out">>
MemPath(pop, ct, num_ind, resample) ==
    <<data_path, "memento_1k/", pop, "_", ct, "_", ToString(num_ind), "_", ToString(resample),
      ".csv">>

\* ---- the loop variables ----
Pop == pops[loop.pop]
NumInd == num_inds[loop.num_ind]
Resample == loop.resample
Ct == cts[loop.ct]

FirstIteration == [pop |-> 1, num_ind |-> 1, resample |-> 0, ct |-> 1]
\* whether the four nested for statements run their body at all
LoopHasBody == Len(pops) > 0 /\ Len(num_inds) > 0 /\ num_resample > 0 /\ Len(cts) > 0
\* the innermost loop that has a next element advances, the ones inside it restart
LastIteration ==
    /\ loop.pop = Len(pops) /\ loop.num_ind = Len(num_inds)
    /\ loop.resample = num_resample - 1 /\ loop.ct = Len(cts)
\* (mutant) the for statements over resample and ct nested the other way round
NextIteration_resampleInner ==
    IF loop.resample < num_resample - 1 THEN [loop EXCEPT !.resample = @ + 1]
    ELSE IF loop.ct < Len(cts)
         THEN [loop EXCEPT !.ct = @ + 1, !.resample = 0]
    ELSE IF loop.num_ind < Len(num_inds)
         THEN [loop EXCEPT !.num_ind = @ + 1, !.resample = 0, !.ct = 1]
    ELSE [loop EXCEPT !.pop = @ + 1, !.num_ind = 1, !.resample = 0, !.ct = 1]

NextIteration ==
    IF loop.ct < Len(cts) THEN [loop EXCEPT !.ct = @ + 1]
    ELSE IF loop.resample < num_resample - 1
         THEN [loop EXCEPT !.resample = @ + 1, !.ct = 1]
    ELSE IF loop.num_ind < Len(num_inds)
         THEN [loop EXCEPT !.num_ind = @ + 1, !.resample = 0, !.ct = 1]
    ELSE [loop EXCEPT !.pop = @ + 1, !.num_ind = 1, !.resample = 0, !.ct = 1]

Record(method, power) ==
    [pop |-> Pop, num_ind |-> NumInd, resample |-> Resample, ct |-> Ct,
     method |-> method, power |-> power]

PowerNotStarted ==
    /\ pc = "read_onek"
    /\ cts = InitialCts
    /\ onek_cg_cov = <<>>
    /\ loop = FirstIteration
    /\ meq = <<>> /\ mem = <<>> /\ merged = <<>>
    /\ result_df = [kind |-> "list", rows |-> <<>>]
    /\ opened = <<>>
    /\ exceptional = "not met"
    /\ figures = {}
    /\ exception = "none"

\* a cell runs only while no exception has halted the run
Running == exception = "none"
\* read_csv on a path: the call is logged with whether the file was there
Opened(path, found) == Append(opened, [path |-> path, found |-> found])

\* onek_replication = pd.read_csv(data_path + 'filtered_onek_eqtls.csv')
ReadOnek ==
    /\ Running /\ OnlyPower /\ pc = "read_onek"
    /\ \/ \E col \in CgCovInputs :
            /\ onek_cg_cov' = col
            /\ opened' = Opened(<<data_path, "filtered_onek_eqtls.csv">>, TRUE)
            /\ pc' = "set_cts" /\ exception' = exception
       \/ /\ opened' = Opened(<<data_path, "filtered_onek_eqtls.csv">>, FALSE)
          /\ exception' = "FileNotFoundError"
          /\ UNCHANGED <<onek_cg_cov, pc>>
    /\ UNCHANGED <<cts, loop, meq, mem, merged, result_df, exceptional, figures>>

\* cts = onek_replication.cg_cov.drop_duplicates().tolist()
SetCts ==
    /\ Running /\ OnlyPower /\ pc = "set_cts"
    /\ cts' = drop_duplicates(onek_cg_cov)
    /\ pc' = "loop"
    /\ UNCHANGED <<onek_cg_cov, loop, meq, mem, merged, result_df, opened, exceptional,
                   figures, exception>>

\* result_df = [] and the four for statements reaching (or skipping) the loop body
EnterLoop ==
    /\ Running /\ OnlyPower /\ pc = "loop"
    /\ result_df' = [kind |-> "list", rows |-> <<>>]
    /\ loop' = FirstIteration
    /\ pc' = IF LoopHasBody THEN "read_meq" ELSE "to_df"
    /\ UNCHANGED <<cts, onek_cg_cov, meq, mem, merged, opened, exceptional, figures,
                   exception>>

\* meq = pd.read_csv(<MeqPath>, sep='\t').  The data directory holds DefaultMeq and
\* DefaultMem for every condition but at most one, the exceptional condition, whose
\* two files are arbitrary (bounded tables, or missing); "exceptional" tells whether
\* the loop has met it.
ReadMeq ==
    /\ Running /\ OnlyPower /\ pc = "read_meq"
    /\ \/ /\ meq' = DefaultMeq
          /\ opened' = Opened(MeqPath(Pop, Ct, NumInd, Resample), TRUE)
          /\ pc' = "read_mem"
          /\ UNCHANGED <<exceptional, exception>>
       \/ /\ exceptional = "not met"
          /\ exceptional' = "current"
          /\ \/ \E t \in MeqTables :
                  /\ meq' = t
                  /\ opened' = Opened(MeqPath(Pop, Ct, NumInd, Resample), TRUE)
                  /\ pc' = "read_mem" /\ exception' = exception
             \/ /\ opened' = Opened(MeqPath(Pop, Ct, NumInd, Resample), FALSE)
                /\ exception' = "FileNotFoundError"
                /\ UNCHANGED <<meq, pc>>
    /\ UNCHANGED <<cts, onek_cg_cov, loop, mem, merged, result_df, figures>>

\* mem = pd.read_csv(<MemPath>)
ReadMem ==
    /\ Running /\ OnlyPower /\ pc = "read_mem"
    /\ IF exceptional = "current"
       THEN /\ exceptional' = "met"
            /\ \/ \E t \in MemTables :
                    /\ mem' = t
                    /\ opened' = Opened(MemPath(Pop, Ct, NumInd, Resample), TRUE)
                    /\ pc' = "merge" /\ exception' = exception
               \/ /\ opened' = Opened(MemPath(Pop, Ct, NumInd, Resample), FALSE)
                  /\ exception' = "FileNotFoundError"
                  /\ UNCHANGED <<mem, pc>>
       ELSE /\ mem' = DefaultMem
            /\ opened' = Opened(MemPath(Pop, Ct, NumInd, Resample), TRUE)
            /\ pc' = "merge"
            /\ UNCHANGED <<exceptional, exception>>
    /\ UNCHANGED <<cts, onek_cg_cov, loop, meq, merged, result_df, figures>>

\* merged = mem.rename(columns={'tx':'SNP'}).merge(meq, on=['SNP', 'gene'], how='left')
MergeTables ==
    /\ Running /\ OnlyPower /\ pc = "merge"
    /\ merged' = Merge(RenameTx(mem), meq)
    /\ pc' = "append_pseudobulk"
    /\ UNCHANGED <<cts, onek_cg_cov, loop, meq, mem, result_df, opened, exceptional,
                   figures, exception>>

\* (mutant) an empty estimator table recorded as power 0 instead of raising
AppendPseudobulk_fallback ==
    /\ Running /\ OnlyPower /\ pc = "append_pseudobulk"
    /\ result_df' = [result_df EXCEPT !.rows =
          Append(@, Record("Pseudobulk",
                           IF Len(mem) = 0 THEN Divide(0, 1)
                           ELSE Divide(SigPseudobulk(merged), Len(mem))))]
    /\ pc' = "append_memento"
    /\ UNCHANGED <<cts, onek_cg_cov, loop, meq, mem, merged, opened, exceptional, figures,
                   exception>>

\* result_df.append((..., 'Pseudobulk', <significant rows of merged> / mem.shape[0]));
\* the division raises ZeroDivisionError before anything is appended
AppendPseudobulk ==
    /\ Running /\ OnlyPower /\ pc = "append_pseudobulk"
    /\ IF Len(mem) = 0
       THEN exception' = "ZeroDivisionError" /\ UNCHANGED <<pc, result_df>>
       ELSE /\ result_df' = [result_df EXCEPT !.rows =
                   Append(@, Record("Pseudobulk", Divide(SigPseudobulk(merged), Len(mem))))]
            /\ pc' = "append_memento"
            /\ exception' = exception
    /\ UNCHANGED <<cts, onek_cg_cov, loop, meq, mem, merged, opened, exceptional, figures>>

\* result_df.append((..., 'memento', <significant rows of mem> / mem.shape[0])), and
\* the for statements moving to the next condition
AppendMemento ==
    /\ Running /\ OnlyPower /\ pc = "append_memento"
    /\ IF Len(mem) = 0
       THEN exception' = "ZeroDivisionError" /\ UNCHANGED <<pc, result_df, loop>>
       ELSE /\ result_df' = [result_df EXCEPT !.rows =
                   Append(@, Record("memento", Divide(SigMemento(mem), Len(mem))))]
            /\ IF LastIteration
               THEN pc' = "to_df" /\ loop' = loop
               ELSE pc' = "read_meq" /\ loop' = NextIteration
            /\ exception' = exception
    /\ UNCHANGED <<cts, onek_cg_cov, meq, mem, merged, opened, exceptional, figures>>

\* result_df = pd.DataFrame(result_df, columns=[...])
ToDataFrame ==
    /\ Running /\ OnlyPower /\ pc = "to_df"
    /\ result_df' = [result_df EXCEPT !.kind = "DataFrame"]
    /\ pc' = "plot"
    /\ UNCHANGED <<cts, onek_cg_cov, loop, meq, mem, merged, opened, exceptional, figures,
                   exception>>

\* the figure cell: four box plots of result_df.query(...), then plt.savefig.  A list
\* has no query method.  Whether seaborn draws a cell type that has no record or
\* raises is the library's matter: both outcomes are possible then.
PlotFigure ==
    /\ Running /\ OnlyPower /\ pc = "plot"
    /\ \/ /\ result_df.kind = "DataFrame"
          /\ figures' = figures \cup {"sampled_power.pdf"}
          /\ pc' = "done"
          /\ exception' = exception
       \/ /\ result_df.kind # "DataFrame"
          /\ exception' = "AttributeError"
          /\ UNCHANGED <<figures, pc>>
       \/ /\ result_df.kind = "DataFrame"
          /\ \E i \in 1..Len(PlottedCts) :
                \A k \in 1..Len(result_df.rows) : result_df.rows[k].ct # PlottedCts[i]
          /\ exception' = "ValueError"
          /\ UNCHANGED <<figures, pc>>
    /\ UNCHANGED <<cts, onek_cg_cov, loop, meq, mem, merged, result_df, opened, exceptional>>

NextPower ==
    \/ ReadOnek \/ SetCts \/ EnterLoop
    \/ ReadMeq \/ ReadMem \/ MergeTables \/ AppendPseudobulk \/ AppendMemento
    \/ ToDataFrame \/ PlotFigure


(***************************************************************************)
(* Properties of the sampled power analysis notebook.                      *)
(***************************************************************************)
Rows == result_df.rows
InLoopBody == pc \in {"read_meq", "read_mem", "merge", "append_pseudobulk", "append_memento"}
LoopCompleted == pc \in {"to_df", "plot", "done"}
\* mem, meq and merged are those of the current condition
TablesCurrent == pc \in {"append_pseudobulk", "append_memento"}
RecordKey(r) == <<r.pop, r.num_ind, r.resample, r.ct, r.method>>
\* the rows of meq that match row i of mem on (SNP, gene)
MatchesInMeq(i) == {j \in 1..Len(meq) : meq[j].SNP = mem[i].tx /\ meq[j].gene = mem[i].gene}

\* C1: for every condition and both methods, the power appended to result_df lies in
\* [0, 1], whatever the two input tables hold (the estimator table not empty).
C1_PowerInUnitInterval ==
    \A k \in 1..Len(Rows) :
        /\ Rows[k].power.den > 0
        /\ 0 <= Rows[k].power.num
        /\ Rows[k].power.num <= Rows[k].power.den

\* C2: in every merged table each (SNP, gene) row of the estimator table has at most
\* one match in the differential-expression table, so merged has as many rows as mem.
C2_JoinCardinality ==
    TablesCurrent =>
        /\ \A i \in 1..Len(mem) : Cardinality(MatchesInMeq(i)) <= 1
        /\ Len(merged) = Len(mem)

\* the condition the k-th iteration of the nested enumeration handles (k from 1)
ExpectedCondition(k) ==
    LET idx == k - 1
        nct == Len(cts)
    IN  <<pops[(idx \div (nct * num_resample * Len(num_inds))) + 1],
          num_inds[((idx \div (nct * num_resample)) % Len(num_inds)) + 1],
          (idx \div nct) % num_resample,
          cts[(idx % nct) + 1]>>
NumConditions == Len(pops) * Len(num_inds) * num_resample * Len(cts)

\* C3: once the loop has run to completion result_df holds, for every element of
\* pops x num_inds x range(num_resample) x cts in nested order, a 'Pseudobulk' record
\* followed immediately by a 'memento' record, and no key occurs twice.
C3_CompleteEnumeration ==
    LoopCompleted =>
        /\ Len(Rows) = 2 * NumConditions
        /\ \A k \in 1..NumConditions :
              /\ RecordKey(Rows[2 * k - 1]) = ExpectedCondition(k) \o <<"Pseudobulk">>
              /\ RecordKey(Rows[2 * k]) = ExpectedCondition(k) \o <<"memento">>
        /\ Cardinality({RecordKey(Rows[a]) : a \in 1..Len(Rows)}) = Len(Rows)

\* C3 witness: a completed run over two cell types, one condition of which recorded a
\* power other than the default's
C3_Witness ==
    /\ pc = "done" /\ Len(cts) = 2 /\ Len(Rows) = 2 * NumConditions
    /\ \E k \in 1..Len(Rows) : Rows[k].power.num # Rows[k].power.den

\* the estimator tests (rows of mem) significant in the differential-expression table
SignificantTests == {i \in 1..Len(mem) : \E j \in MatchesInMeq(i) : meq[j].pvalue < Alpha}

\* C4: the power recorded for 'Pseudobulk' is the number of estimator tests whose
\* differential-expression p-value is < 0.05 over the number of estimator rows (an
\* unmatched row never counts), and for 'memento' the number of estimator rows with
\* de_pval < 0.05 over the number of estimator rows.
C4_PowerIsFractionOfTests ==
    /\ pc = "append_memento" =>
          /\ Rows[Len(Rows)].method = "Pseudobulk"
          /\ Rows[Len(Rows)].power = Divide(Cardinality(SignificantTests), Len(mem))
    /\ (pc \in {"read_meq", "to_df"} /\ Len(Rows) > 0) =>
          /\ Rows[Len(Rows)].method = "memento"
          /\ Rows[Len(Rows)].power =
                Divide(Cardinality({i \in 1..Len(mem) : mem[i].de_pval < Alpha}), Len(mem))

FailedOpens == {i \in 1..Len(opened) : ~opened[i].found}
\* the estimator table read for the current condition is empty
EmptyMemRead == pc \in {"merge", "append_pseudobulk", "append_memento"} /\ mem = <<>>
CurrentHasRecord ==
    \E k \in 1..Len(Rows) :
        /\ Rows[k].pop = Pop /\ Rows[k].num_ind = NumInd
        /\ Rows[k].resample = Resample /\ Rows[k].ct = Ct

\* C9: a missing input file, or an empty estimator table, of a condition is not
\* caught: the failed read is the last read of the run and the run has halted on the
\* exception, an empty estimator table is never got past its first division, no
\* record stands in for the failed condition, result_df is still the list, the
\* figure is not written, and no path is read twice.
C9_FailureHaltsRun ==
    /\ \A i \in FailedOpens : i = Len(opened) /\ exception = "FileNotFoundError"
    /\ EmptyMemRead =>
          /\ pc # "append_memento"
          /\ opened[Len(opened)].path = MemPath(Pop, Ct, NumInd, Resample)
          /\ pc = "append_pseudobulk" => exception \in {"none", "ZeroDivisionError"}
    /\ (InLoopBody /\ (FailedOpens # {} \/ EmptyMemRead \/ ~Running)) =>
          /\ ~CurrentHasRecord
          /\ result_df.kind = "list"
          /\ figures = {}
    /\ Cardinality({opened[i].path : i \in 1..Len(opened)}) = Len(opened)

\* C9 witness: the estimator file of a later condition is missing, after records of
\* earlier conditions were appended, and the run has halted there
C9_Witness ==
    /\ pc = "read_mem" /\ exception = "FileNotFoundError"
    /\ ~opened[Len(opened)].found
    /\ Len(Rows) >= 2 /\ ~LastIteration

\* the position of the first x in s
FirstIndex(s, x) == CHOOSE i \in 1..Len(s) : s[i] = x /\ \A j \in 1..(i - 1) : s[j] # x

\* C14: once the replication table is read, the list the loop enumerates is its cg_cov
\* column without duplicates, in first-occurrence order, in place of the six configured
\* cell types; every record has a ct of that list, no (pop, num_ind, resample, ct, method)
\* is recorded twice, and a configured cell type absent from cg_cov has no record.
C14_CtsFromReplicationTable ==
    /\ pc \in {"read_onek", "set_cts"} => cts = InitialCts
    /\ pc \notin {"read_onek", "set_cts"} =>
          /\ Range(cts) = Range(onek_cg_cov)
          /\ Cardinality(Range(cts)) = Len(cts)
          /\ \A a \in 1..Len(cts) : \A b \in 1..Len(cts) :
                a < b => FirstIndex(onek_cg_cov, cts[a]) < FirstIndex(onek_cg_cov, cts[b])
    /\ \A i \in 1..Len(Rows) :
          /\ Rows[i].ct \in Range(onek_cg_cov)
          /\ Rows[i].ct \in Range(InitialCts) \ Range(onek_cg_cov) => FALSE
    /\ Cardinality({RecordKey(Rows[i]) : i \in 1..Len(Rows)}) = Len(Rows)

\* the loop has run over a cg_cov column that repeats a cell type and lacks configured ones
C14_Witness ==
    /\ LoopCompleted
    /\ Len(onek_cg_cov) > Len(cts)
    /\ Len(cts) >= 2
    /\ Len(Rows) >= 2 * Len(cts)
    /\ Range(InitialCts) \ Range(onek_cg_cov) # {}

(***************************************************************************)
(*                   THE SIMULATION-DATA NOTEBOOK                          *)
(***************************************************************************)
sim_data_path == "/data_volume/memento/simulation/"
\* the subsampling rates, as formatted by '{}'.format and in tenths
subsample_rates ==
    <<[str |-> "1.0", tenths |-> 10], [str |-> "0.8", tenths |-> 8],
      [str |-> "0.6", tenths |-> 6], [str |-> "0.4", tenths |-> 4],
      [str |-> "0.2", tenths |-> 2], [str |-> "0.1", tenths |-> 1]>>
\* the mean-expression threshold 2.5, in tenths
MeanThresholdTenths == 25
Monocytes == "CD14+ Monocytes"

\* ---- the input data set ----
\* gene names, as the pieces a '.' splits them into
Genes == << <<"ISG15">>, <<"HLA", ".", "A">> >>
CellKinds == {<<Monocytes, "ctrl">>, <<Monocytes, "stim">>, <<"B cells", "ctrl">>}
\* the counts of the two genes in a control cell and in a stimulated cell
ExpressionProfiles ==
    {[ctrl |-> <<5, 0>>, stim |-> <<5, 5>>], [ctrl |-> <<0, 0>>, stim |-> <<0, 0>>],
     [ctrl |-> <<5, 5>>, stim |-> <<5, 5>>], [ctrl |-> <<0, 5>>, stim |-> <<0, 5>>]}
\* NumSourceCells cells of any kinds; the control cells share one expression profile
\* and the stimulated cells another
Datasets ==
    {[obs |-> [i \in 1..NumSourceCells |->
                  [name |-> <<i>>, cell |-> k[i][1], stim |-> k[i][2]]],
      var |-> Genes,
      X |-> [i \in 1..NumSourceCells |-> IF k[i][2] = "ctrl" THEN p.ctrl ELSE p.stim],
      transform |-> <<>>] :
        k \in [1..NumSourceCells -> CellKinds], p \in ExpressionProfiles}

\* ---- anndata / scanpy ----
n_obs(ad) == Len(ad.obs)
\* the indices of 1..n that are in S, ascending: the positions a boolean mask selects
IndicesWhere(n, S) == SelectSeq([i \in 1..n |-> i], LAMBDA i : i \in S)
\* ad[idx] for a sequence of row indices
TakeObs(ad, idx) ==
    [ad EXCEPT !.obs = [k \in 1..Len(idx) |-> ad.obs[idx[k]]],
               !.X = [k \in 1..Len(idx) |-> ad.X[idx[k]]]]
\* ad[:, idx] for a sequence of column indices
TakeVars(ad, idx) ==
    [ad EXCEPT !.var = [k \in 1..Len(idx) |-> ad.var[idx[k]]],
               !.X = [i \in 1..Len(ad.X) |-> [k \in 1..Len(idx) |-> ad.X[i][idx[k]]]]]
\* ad[(ad.obs.cell == cell) & (ad.obs.stim == stim)]
CellsOf(ad, cell, stim) ==
    TakeObs(ad, IndicesWhere(n_obs(ad),
                             {i \in 1..n_obs(ad) : ad.obs[i].cell = cell /\ ad.obs[i].stim = stim}))
\* ad[ad.obs.cell == cell]
CellsOfType(ad, cell) ==
    TakeObs(ad, IndicesWhere(n_obs(ad), {i \in 1..n_obs(ad) : ad.obs[i].cell = cell}))

\* (mutant) a request for more cells than there are answered with all of them
subsample_clipped(ad, n) ==
    {TakeObs(ad, IndicesWhere(n_obs(ad), S)) :
        S \in {T \in SUBSET (1..n_obs(ad)) :
                  Cardinality(T) = IF n <= n_obs(ad) THEN n ELSE n_obs(ad)}}

\* the possible results of sc.pp.subsample(ad, n_obs=n, copy=True): n of the rows drawn
\* without replacement (here kept in their order in ad); none when ad has fewer than
\* n rows, where the draw raises ValueError
subsample(ad, n) ==
    {TakeObs(ad, IndicesWhere(n_obs(ad), S)) :
        S \in {T \in SUBSET (1..n_obs(ad)) : Cardinality(T) = n}}

\* sc.AnnData.concatenate(a, b): the rows of a then of b, each cell marked with its
\* batch and its name suffixed with it; the genes both have, in a's order
concatenate(a, b) ==
    LET shared == IndicesWhere(Len(a.var),
                               {g \in 1..Len(a.var) : \E h \in 1..Len(b.var) : b.var[h] = a.var[g]})
        InB(g) == CHOOSE h \in 1..Len(b.var) : b.var[h] = a.var[g]
        Mark(o, batch, suffix) ==
            [name |-> Append(o.name, suffix), cell |-> o.cell, stim |-> o.stim, batch |-> batch]
    IN  [obs |-> [i \in 1..n_obs(a) |-> Mark(a.obs[i], "0", "-0")]
                 \o [i \in 1..n_obs(b) |-> Mark(b.obs[i], "1", "-1")],
         var |-> [k \in 1..Len(shared) |-> a.var[shared[k]]],
         X |-> [i \in 1..n_obs(a) |-> [k \in 1..Len(shared) |-> a.X[i][shared[k]]]]
               \o [i \in 1..n_obs(b) |-> [k \in 1..Len(shared) |-> b.X[i][InB(shared[k])]]],
         transform |-> <<>>]

\* X[:, g].sum()
RECURSIVE ColumnSum(_, _, _)
ColumnSum(X, g, n) == IF n = 0 THEN 0 ELSE ColumnSum(X, g, n - 1) + X[n][g]

\* (mutant) the threshold met, not exceeded
MeanExceeds_orEqual(X, g) == 10 * ColumnSum(X, g, Len(X)) >= MeanThresholdTenths * Len(X)

\* (X.mean(axis=0) > 2.5)[g]: the column sum over the number of rows exceeds 2.5
MeanExceeds(X, g) == 10 * ColumnSum(X, g, Len(X)) > MeanThresholdTenths * Len(X)

\* subset[:, (subset.X.mean(axis=0) > 2.5).A1]
FilterGenes(ad) == TakeVars(ad, IndicesWhere(Len(ad.var), {g \in 1..Len(ad.var) : MeanExceeds(ad.X, g)}))

\* obs['stim_indicator'] = (obs.stim == 'stim').astype(int)
WithStimIndicator(obs) ==
    [i \in 1..Len(obs) |->
        [name |-> obs[i].name, cell |-> obs[i].cell, stim |-> obs[i].stim,
         batch |-> obs[i].batch,
         stim_indicator |-> IF obs[i].stim = "stim" THEN 1 ELSE 0]]

\* simulate.capture_sampling(X, q=rate, process='hyper')[1]: every count thinned to
\* about rate times itself, rounded down or up as the draw has it
capture_sampling(X, rate, draw) ==
    [i \in 1..Len(X) |->
        [g \in 1..Len(X[i]) |->
            IF draw = "low" THEN (rate.tenths * X[i][g]) \div 10
            ELSE (rate.tenths * X[i][g] + 9) \div 10]]
Draws == {"low", "high"}

\* sc.pp.log1p and sc.pp.scale: X holds the counts the transforms were applied to
log1p(ad) == [ad EXCEPT !.transform = Append(@, "log1p")]
scale(ad) == [ad EXCEPT !.transform = Append(@, "scale")]

\* '-'.join(x.split('.')) over the gene names
RenameGene(g) == [k \in 1..Len(g) |-> IF g[k] = "." THEN "-" ELSE g[k]]

\* ---- paths ----
(* (mutant) the file named by the rate alone *)
RawPath_rateOnly(rate, replicate) ==
    <<sim_data_path, "acc_fpr/downsampled/downsampled_", rate.str, ".h5ad">>

RawPath(rate, replicate) ==
    <<sim_data_path, "acc_fpr/downsampled/downsampled_", rate.str, "_", ToString(replicate), ".h5ad">>
NormPath(rate, replicate) ==
    <<sim_data_path, "acc_fpr/downsampled/downsampled_", rate.str, "_",
      ToString(replicate), "_norm.h5ad">>
SamplePath(n_cells, replicate) ==
    <<sim_data_path, "acc_fpr/subsampled/subampled_", ToString(n_cells), "_",
      ToString(replicate), "_norm.h5ad">>
MetadataPath == <<sim_data_path, "acc_fpr/metadata.csv">>
GeneInfoPath == <<sim_data_path, "acc_fpr/gene_info.csv">>

SimRunning == sim_exception = "none"
Write(path, content) == Append(written, [path |-> path, content |-> content])
Rate == subsample_rates[sim_loop.rate]
Replicate == sim_loop.replicate

\* ifn_adata = sc.read(data_path + '../demux/interferon_filtered.h5ad')
ReadIfn ==
    /\ SimRunning /\ OnlySim /\ sim_pc = "read_ifn"
    /\ ifn_adata' = dataset
    /\ sim_pc' = "subsample_ctrl"
    /\ UNCHANGED <<sim_exception, dataset, ctrl_subset, stim_subset, subset, original_data,
                   sim_loop, X_subsample, subset_norm, adata, adata_sample, written>>

\* ctrl_subset = sc.pp.subsample(ifn_adata[monocytes & ctrl].copy(), n_obs=1000, copy=True)
SubsampleCtrl ==
    /\ SimRunning /\ OnlySim /\ sim_pc = "subsample_ctrl"
    /\ LET outcomes == subsample(CellsOf(ifn_adata, Monocytes, "ctrl"), NObs)
       IN  \/ \E s \in outcomes :
                 ctrl_subset' = s /\ sim_pc' = "subsample_stim" /\ sim_exception' = "none"
           \/ /\ outcomes = {}
              /\ sim_exception' = "ValueError"
              /\ UNCHANGED <<ctrl_subset, sim_pc>>
    /\ UNCHANGED <<dataset, ifn_adata, stim_subset, subset, original_data, sim_loop,
                   X_subsample, subset_norm, adata, adata_sample, written>>

\* stim_subset = sc.pp.subsample(ifn_adata[monocytes & stim].copy(), n_obs=1000, copy=True)
SubsampleStim ==
    /\ SimRunning /\ OnlySim /\ sim_pc = "subsample_stim"
    /\ LET outcomes == subsample(CellsOf(ifn_adata, Monocytes, "stim"), NObs)
       IN  \/ \E s \in outcomes :
                 stim_subset' = s /\ sim_pc' = "concatenate" /\ sim_exception' = "none"
           \/ /\ outcomes = {}
              /\ sim_exception' = "ValueError"
              /\ UNCHANGED <<stim_subset, sim_pc>>
    /\ UNCHANGED <<dataset, ifn_adata, ctrl_subset, subset, original_data, sim_loop,
                   X_subsample, subset_norm, adata, adata_sample, written>>

\* subset = sc.AnnData.concatenate(ctrl_subset, stim_subset)
Concatenate ==
    /\ SimRunning /\ OnlySim /\ sim_pc = "concatenate"
    /\ subset' = concatenate(ctrl_subset, stim_subset)
    /\ sim_pc' = "filter_genes"
    /\ UNCHANGED <<sim_exception, dataset, ifn_adata, ctrl_subset, stim_subset,
                   original_data, sim_loop, X_subsample, subset_norm, adata, adata_sample,
                   written>>

\* subset = subset[:,(subset.X.mean(axis=0) > 2.5).A1].copy()
FilterGenesCell ==
    /\ SimRunning /\ OnlySim /\ sim_pc = "filter_genes"
    /\ subset' = FilterGenes(subset)
    /\ sim_pc' = "to_int"
    /\ UNCHANGED <<sim_exception, dataset, ifn_adata, ctrl_subset, stim_subset,
                   original_data, sim_loop, X_subsample, subset_norm, adata, adata_sample,
                   written>>

\* subset.X = subset.X.toarray().astype(int): the counts are whole numbers already
ToIntArray ==
    /\ SimRunning /\ OnlySim /\ sim_pc = "to_int"
    /\ sim_pc' = "stim_indicator"
    /\ UNCHANGED <<sim_exception, dataset, ifn_adata, ctrl_subset, stim_subset, subset,
                   original_data, sim_loop, X_subsample, subset_norm, adata, adata_sample,
                   written>>

\* subset.obs['stim_indicator'] = (subset.obs.stim == 'stim').astype(int)
AddStimIndicator ==
    /\ SimRunning /\ OnlySim /\ sim_pc = "stim_indicator"
    /\ subset' = [subset EXCEPT !.obs = WithStimIndicator(@)]
    /\ sim_pc' = "write_metadata"
    /\ UNCHANGED <<sim_exception, dataset, ifn_adata, ctrl_subset, stim_subset,
                   original_data, sim_loop, X_subsample, subset_norm, adata, adata_sample,
                   written>>

\* subset.obs.to_csv(data_path + 'acc_fpr/metadata.csv')
WriteMetadata ==
    /\ SimRunning /\ OnlySim /\ sim_pc = "write_metadata"
    /\ written' = Write(MetadataPath, subset.obs)
    /\ sim_pc' = "write_gene_info"
    /\ UNCHANGED <<sim_exception, dataset, ifn_adata, ctrl_subset, stim_subset, subset,
                   original_data, sim_loop, X_subsample, subset_norm, adata, adata_sample>>

\* subset.var.to_csv(data_path + 'acc_fpr/gene_info.csv')
WriteGeneInfo ==
    /\ SimRunning /\ OnlySim /\ sim_pc = "write_gene_info"
    /\ written' = Write(GeneInfoPath, subset.var)
    /\ sim_pc' = "copy_original"
    /\ UNCHANGED <<sim_exception, dataset, ifn_adata, ctrl_subset, stim_subset, subset,
                   original_data, sim_loop, X_subsample, subset_norm, adata, adata_sample>>

\* original_data = subset.X.copy(), and the two for statements reaching the loop body
CopyOriginal ==
    /\ SimRunning /\ OnlySim /\ sim_pc = "copy_original"
    /\ original_data' = subset.X
    /\ sim_loop' = [rate |-> 1, replicate |-> 0]
    /\ sim_pc' = IF Len(subsample_rates) > 0 /\ NumReplicates > 0 THEN "capture"
                 ELSE "read_adata"
    /\ UNCHANGED <<sim_exception, dataset, ifn_adata, ctrl_subset, stim_subset, subset,
                   X_subsample, subset_norm, adata, adata_sample, written>>

(* (mutant) the sample is drawn from subset.X, the previous iteration's sample *)
CaptureSample_compounding ==
    /\ SimRunning /\ OnlySim /\ sim_pc = "capture"
    /\ \E draw \in Draws : X_subsample' = capture_sampling(subset.X, Rate, draw)
    /\ sim_pc' = "assign_X"
    /\ UNCHANGED <<sim_exception, dataset, ifn_adata, ctrl_subset, stim_subset, subset,
                   original_data, sim_loop, subset_norm, adata, adata_sample, written>>

\* X_subsample = simulate.capture_sampling(original_data, q=subsample_rate, process='hyper')[1]
CaptureSample ==
    /\ SimRunning /\ OnlySim /\ sim_pc = "capture"
    /\ \E draw \in Draws : X_subsample' = capture_sampling(original_data, Rate, draw)
    /\ sim_pc' = "assign_X"
    /\ UNCHANGED <<sim_exception, dataset, ifn_adata, ctrl_subset, stim_subset, subset,
                   original_data, sim_loop, subset_norm, adata, adata_sample, written>>

(* (mutant) subset rebuilt around the new matrix, without its obs and var tables *)
AssignX_newAnnData ==
    /\ SimRunning /\ OnlySim /\ sim_pc = "assign_X"
    /\ subset' = [Unassigned EXCEPT !.X = X_subsample]
    /\ sim_pc' = "write_raw"
    /\ UNCHANGED <<sim_exception, dataset, ifn_adata, ctrl_subset, stim_subset,
                   original_data, sim_loop, X_subsample, subset_norm, adata, adata_sample,
                   written>>

\* subset.X = X_subsample
AssignX ==
    /\ SimRunning /\ OnlySim /\ sim_pc = "assign_X"
    /\ subset' = [subset EXCEPT !.X = X_subsample]
    /\ sim_pc' = "write_raw"
    /\ UNCHANGED <<sim_exception, dataset, ifn_adata, ctrl_subset, stim_subset,
                   original_data, sim_loop, X_subsample, subset_norm, adata, adata_sample,
                   written>>

\* subset.write(data_path + 'acc_fpr/downsampled/downsampled_{}_{}.h5ad'.format(...))
WriteRaw ==
    /\ SimRunning /\ OnlySim /\ sim_pc = "write_raw"
    /\ written' = Write(RawPath(Rate, Replicate), subset)
    /\ sim_pc' = "copy_norm"
    /\ UNCHANGED <<sim_exception, dataset, ifn_adata, ctrl_subset, stim_subset, subset,
                   original_data, sim_loop, X_subsample, subset_norm, adata, adata_sample>>

\* subset_norm = subset.copy()
CopyNorm ==
    /\ SimRunning /\ OnlySim /\ sim_pc = "copy_norm"
    /\ subset_norm' = subset
    /\ sim_pc' = "log1p"
    /\ UNCHANGED <<sim_exception, dataset, ifn_adata, ctrl_subset, stim_subset, subset,
                   original_data, sim_loop, X_subsample, adata, adata_sample, written>>

(* (mutant) the transform applied to subset itself *)
Log1p_onSubset ==
    /\ SimRunning /\ OnlySim /\ sim_pc = "log1p"
    /\ subset' = log1p(subset)
    /\ sim_pc' = "scale"
    /\ UNCHANGED <<sim_exception, dataset, ifn_adata, ctrl_subset, stim_subset, subset_norm,
                   original_data, sim_loop, X_subsample, adata, adata_sample, written>>

\* sc.pp.log1p(subset_norm)
Log1p ==
    /\ SimRunning /\ OnlySim /\ sim_pc = "log1p"
    /\ subset_norm' = log1p(subset_norm)
    /\ sim_pc' = "scale"
    /\ UNCHANGED <<sim_exception, dataset, ifn_adata, ctrl_subset, stim_subset, subset,
                   original_data, sim_loop, X_subsample, adata, adata_sample, written>>

\* sc.pp.scale(subset_norm)
Scale ==
    /\ SimRunning /\ OnlySim /\ sim_pc = "scale"
    /\ subset_norm' = scale(subset_norm)
    /\ sim_pc' = "write_norm"
    /\ UNCHANGED <<sim_exception, dataset, ifn_adata, ctrl_subset, stim_subset, subset,
                   original_data, sim_loop, X_subsample, adata, adata_sample, written>>

\* subset_norm.write(... 'downsampled_{}_{}_norm.h5ad'.format(...)), and the two for
\* statements moving to the next replicate or rate
WriteNorm ==
    /\ SimRunning /\ OnlySim /\ sim_pc = "write_norm"
    /\ written' = Write(NormPath(Rate, Replicate), subset_norm)
    /\ IF sim_loop.replicate < NumReplicates - 1
       THEN sim_loop' = [sim_loop EXCEPT !.replicate = @ + 1] /\ sim_pc' = "capture"
       ELSE IF sim_loop.rate < Len(subsample_rates)
            THEN sim_loop' = [rate |-> sim_loop.rate + 1, replicate |-> 0] /\ sim_pc' = "capture"
            ELSE sim_loop' = sim_loop /\ sim_pc' = "read_adata"
    /\ UNCHANGED <<sim_exception, dataset, ifn_adata, ctrl_subset, stim_subset, subset,
                   original_data, X_subsample, subset_norm, adata, adata_sample>>

\* adata = sc.read('/data_volume/memento/demux/interferon.h5ad')
ReadAdata ==
    /\ SimRunning /\ OnlySim /\ sim_pc = "read_adata"
    /\ adata' = dataset
    /\ sim_pc' = "filter_cells"
    /\ UNCHANGED <<sim_exception, dataset, ifn_adata, ctrl_subset, stim_subset, subset,
                   original_data, sim_loop, X_subsample, subset_norm, adata_sample, written>>

\* adata = adata[(adata.obs.cell == 'CD14+ Monocytes')]
FilterCells ==
    /\ SimRunning /\ OnlySim /\ sim_pc = "filter_cells"
    /\ adata' = CellsOfType(adata, Monocytes)
    /\ sim_pc' = "rename_genes"
    /\ UNCHANGED <<sim_exception, dataset, ifn_adata, ctrl_subset, stim_subset, subset,
                   original_data, sim_loop, X_subsample, subset_norm, adata_sample, written>>

\* adata.var.index = adata.var.index.map(lambda x: '-'.join(x.split('.'))); n_cells = 250
\* and the for statement reaching the loop body
RenameGenes ==
    /\ SimRunning /\ OnlySim /\ sim_pc = "rename_genes"
    /\ adata' = [adata EXCEPT !.var = [g \in 1..Len(@) |-> RenameGene(@[g])]]
    /\ sim_loop' = [sim_loop EXCEPT !.replicate = 0]
    /\ sim_pc' = IF NumSampleReplicates > 0 THEN "subsample" ELSE "done"
    /\ UNCHANGED <<sim_exception, dataset, ifn_adata, ctrl_subset, stim_subset, subset,
                   original_data, X_subsample, subset_norm, adata_sample, written>>

\* adata_sample = sc.pp.subsample(adata, n_obs=n_cells, copy=True, random_state=None).copy().copy()
SubsampleAdata ==
    /\ SimRunning /\ OnlySim /\ sim_pc = "subsample"
    /\ LET outcomes == subsample(adata, NCells)
       IN  \/ \E s \in outcomes :
                 adata_sample' = s /\ sim_pc' = "write_sample" /\ sim_exception' = "none"
           \/ /\ outcomes = {}
              /\ sim_exception' = "ValueError"
              /\ UNCHANGED <<adata_sample, sim_pc>>
    /\ UNCHANGED <<dataset, ifn_adata, ctrl_subset, stim_subset, subset, original_data,
                   sim_loop, X_subsample, subset_norm, adata, written>>

\* adata_sample.write(... 'subampled_{}_{}_norm.h5ad'.format(n_cells, replicate)), and
\* the for statement moving to the next replicate
WriteSample ==
    /\ SimRunning /\ OnlySim /\ sim_pc = "write_sample"
    /\ written' = Write(SamplePath(NCells, Replicate), adata_sample)
    /\ IF sim_loop.replicate < NumSampleReplicates - 1
       THEN sim_loop' = [sim_loop EXCEPT !.replicate = @ + 1] /\ sim_pc' = "subsample"
       ELSE sim_loop' = sim_loop /\ sim_pc' = "done"
    /\ UNCHANGED <<sim_exception, dataset, ifn_adata, ctrl_subset, stim_subset, subset,
                   original_data, X_subsample, subset_norm, adata, adata_sample>>

NextSim ==
    \/ ReadIfn \/ SubsampleCtrl \/ SubsampleStim \/ Concatenate \/ FilterGenesCell
    \/ ToIntArray \/ AddStimIndicator \/ WriteMetadata \/ WriteGeneInfo \/ CopyOriginal
    \/ CaptureSample \/ AssignX \/ WriteRaw \/ CopyNorm \/ Log1p \/ Scale \/ WriteNorm
    \/ ReadAdata \/ FilterCells \/ RenameGenes \/ SubsampleAdata \/ WriteSample

(***************************************************************************)
(* Claims about the simulation-data notebook.                              *)
(***************************************************************************)
BeforeFilter == {"read_ifn", "subsample_ctrl", "subsample_stim", "concatenate", "filter_genes"}
BeforeOriginalCopy ==
    BeforeFilter \cup {"to_int", "stim_indicator", "write_metadata", "write_gene_info",
                       "copy_original"}
InDownsamplingLoop ==
    {"capture", "assign_X", "write_raw", "copy_norm", "log1p", "scale", "write_norm"}
DownsamplingCompleted == sim_pc \notin BeforeOriginalCopy \cup InDownsamplingLoop
HasRows(ad, n) == Len(ad.obs) = n /\ Len(ad.X) = n
NumMonocytes == Cardinality({i \in 1..Len(dataset.obs) : dataset.obs[i].cell = Monocytes})
SampleWrites == {i \in 1..Len(written) : written[i].path[2] = "acc_fpr/subsampled/subampled_"}

\* C5: every subsample has exactly the number of cells asked for (ctrl_subset and
\* stim_subset n_obs rows each, their concatenation twice that, every adata_sample and
\* every file written from it n_cells rows), and the matrix drawn from keeps its rows.
C5_SubsampleSizes ==
    /\ ctrl_subset # Unassigned => HasRows(ctrl_subset, NObs)
    /\ stim_subset # Unassigned => HasRows(stim_subset, NObs)
    /\ subset # Unassigned => HasRows(subset, 2 * NObs)
    /\ adata_sample # Unassigned => HasRows(adata_sample, NCells)
    /\ \A i \in SampleWrites : HasRows(written[i].content, NCells)
    /\ ifn_adata # Unassigned => ifn_adata = dataset
    /\ sim_pc \in {"subsample", "write_sample", "done"} => HasRows(adata, NumMonocytes)

\* every kind of draw has been made, each from more cells than it keeps
C5_Witness ==
    /\ sim_pc = "done"
    /\ Cardinality(SampleWrites) = NumSampleReplicates
    /\ n_obs(adata) > NCells
    /\ n_obs(CellsOf(ifn_adata, Monocytes, "ctrl")) > NObs

PreFilter == concatenate(ctrl_subset, stim_subset)
\* X as the gene filter left it: subset.X until original_data holds the copy
FilteredX == IF sim_pc \in BeforeOriginalCopy THEN subset.X ELSE original_data
HighGenes == {g \in 1..Len(PreFilter.var) :
                 2 * ColumnSum(PreFilter.X, g, Len(PreFilter.X)) > 5 * Len(PreFilter.X)}

DownsampledWrites ==
    SelectSeq(written, LAMBDA w : w.path[2] = "acc_fpr/downsampled/downsampled_")
\* the rate and the replicate of the k-th iteration of the loop, k from 1
RateOfIteration(k) == subsample_rates[((k - 1) \div NumReplicates) + 1]
ReplicateOfIteration(k) == (k - 1) % NumReplicates

\* C7: once the downsampling loop has run to completion it has written, for every
\* (rate, replicate) in turn, the raw file and then the normalized file and nothing
\* else: 2 * rates * replicates files, under pairwise distinct paths, so each
\* (rate, replicate) has exactly one raw and one normalized file and none is overwritten.
C7_OneRawOneNormPerCondition ==
    DownsamplingCompleted =>
        LET files == DownsampledWrites
        IN  /\ Len(files) = 2 * Len(subsample_rates) * NumReplicates
            /\ \A k \in 1..(Len(subsample_rates) * NumReplicates) :
                  /\ files[2 * k - 1].path
                        = RawPath(RateOfIteration(k), ReplicateOfIteration(k))
                  /\ files[2 * k].path
                        = NormPath(RateOfIteration(k), ReplicateOfIteration(k))
            /\ Cardinality({files[i].path : i \in 1..Len(files)}) = Len(files)

\* the loop has just finished its last replicate of the last rate
C7_Witness ==
    /\ sim_pc = "read_adata"
    /\ Len(DownsampledWrites) = 2 * Len(subsample_rates) * NumReplicates
    /\ NumReplicates > 1

\* the last piece of a path: ".h5ad" or "_norm.h5ad" for the dataset files
Suffix(path) == path[Len(path)]
Normalized == <<"log1p", "scale">>

\* C11: every dataset file written under a name ending in _norm.h5ad holds a matrix that
\* log1p and scale were applied to before the write, and every dataset file written
\* without that suffix holds untransformed counts (downsampling and subsampling loops).
C11_NormSuffixMeansNormalized ==
    \A i \in 1..Len(written) :
        /\ Suffix(written[i].path) = "_norm.h5ad" => written[i].content.transform = Normalized
        /\ Suffix(written[i].path) = ".h5ad" => written[i].content.transform = <<>>

\* the filtered counts, as the cells before the loop leave them
FilteredCounts == FilterGenes(PreFilter).X

\* C12: throughout the downsampling loop and after it original_data is the matrix copied
\* from subset.X before the loop, and every capture-sampling result is drawn from that
\* matrix at the rate of its iteration, never from an earlier downsample.
C12_OriginalDataNeverModified ==
    /\ sim_pc \notin BeforeOriginalCopy => original_data = FilteredCounts
    /\ sim_pc \in InDownsamplingLoop \ {"capture"} =>
          \E draw \in Draws : X_subsample = capture_sampling(FilteredCounts, Rate, draw)

\* a sample has just been drawn at a lower rate while subset.X holds an earlier, different
\* downsample
C12_Witness ==
    /\ sim_pc = "assign_X"
    /\ sim_loop.rate >= 3
    /\ subset.X # original_data
    /\ X_subsample # subset.X

RawWrites == SelectSeq(written, LAMBDA w : Suffix(w.path) = ".h5ad")

\* C13: log1p and scale act on the copy subset_norm only: from the assignment of an
\* iteration on, subset.X is the raw sample X_subsample of that iteration and subset
\* carries no transform, and no raw file written holds transformed values.
C13_NormalizationOnCopyOnly ==
    /\ sim_pc \notin BeforeOriginalCopy \cup {"capture", "assign_X"} =>
          subset.X = X_subsample /\ subset.transform = <<>>
    /\ LET files == RawWrites
       IN  \A i \in 1..Len(files) : files[i].content.transform = <<>>

\* the copy has been transformed and written, and a later raw file has been written
C13_Witness ==
    /\ sim_pc = "copy_norm"
    /\ sim_loop.rate >= 2
    /\ subset_norm.transform = Normalized
    /\ Len(RawWrites) >= 2

CsvWritten(path) == {written[i].content : i \in {j \in 1..Len(written) : written[j].path = path}}

\* C16: every raw and normalized downsampled file has the cells of metadata.csv and the
\* genes of gene_info.csv, in the same order, and a matrix of that shape (the 2 * n_obs
\* subsampled cells by the filtered genes).
C16_MetadataAndShapeUnchanged ==
    LET files == DownsampledWrites
        metadata == CsvWritten(MetadataPath)
        gene_info == CsvWritten(GeneInfoPath)
        n_genes == Len(FilterGenes(PreFilter).var)
    IN  \A i \in 1..Len(files) :
            LET file == files[i].content
            IN  /\ metadata = {file.obs}
                /\ gene_info = {file.var}
                /\ Len(file.obs) = 2 * NObs
                /\ Len(file.X) = Len(file.obs)
                /\ \A r \in 1..Len(file.X) : Len(file.X[r]) = Len(file.var)
                /\ Len(file.var) = n_genes

\* the loop has run to completion over a matrix that kept a gene
C16_Witness ==
    /\ sim_pc = "read_adata"
    /\ Len(DownsampledWrites) = 2 * Len(subsample_rates) * NumReplicates
    /\ Len(subset.var) >= 1

(***************************************************************************)
(*                   THE SAVER COMPARISON NOTEBOOK                         *)
(***************************************************************************)
\* ---- R numbers: exact fractions in lowest terms; den = 0 is NA/NaN ----
Abs(n) == IF n < 0 THEN -n ELSE n
RECURSIVE GCD(_, _)
GCD(a, b) == IF b = 0 THEN a ELSE GCD(b, a % b)
NaN == [num |-> 0, den |-> 0]
IsNaN(r) == r.den = 0
\* n/d; the only division by zero the notebook's formulas can meet is 0/0
Ratio(n, d) ==
    IF d = 0 THEN NaN
    ELSE LET g == GCD(Abs(n), Abs(d))
         IN  [num |-> (IF d < 0 THEN -n ELSE n) \div g, den |-> Abs(d) \div g]
Num(n) == [num |-> n, den |-> 1]
RAdd(a, b) == IF IsNaN(a) \/ IsNaN(b) THEN NaN
              ELSE Ratio(a.num * b.den + b.num * a.den, a.den * b.den)
RSub(a, b) == IF IsNaN(a) \/ IsNaN(b) THEN NaN
              ELSE Ratio(a.num * b.den - b.num * a.den, a.den * b.den)
RMul(a, b) == IF IsNaN(a) \/ IsNaN(b) THEN NaN ELSE Ratio(a.num * b.num, a.den * b.den)
RDiv(a, b) == IF IsNaN(a) \/ IsNaN(b) THEN NaN ELSE Ratio(a.num * b.den, a.den * b.num)
RECURSIVE RSum(_, _)
RSum(xs, n) == IF n = 0 THEN Num(0) ELSE RAdd(RSum(xs, n - 1), xs[n])
\* elementwise x * y of two vectors
VecMul(x, y) == [c \in 1..Len(x) |-> RMul(x[c], y[c])]
NaRm(xs) == SelectSeq(xs, LAMBDA x : ~IsNaN(x))
\* mean(xs)
Mean(xs) == RDiv(RSum(xs, Len(xs)), Num(Len(xs)))
\* mean(xs, na.rm = TRUE)
MeanNaRm(xs) == Mean(NaRm(xs))
\* sum((x - mean(x)) * (y - mean(y))) / (n - 1)
Cov(x, y) ==
    IF Len(x) < 2 THEN NaN
    ELSE RDiv(RSum([c \in 1..Len(x) |-> RMul(RSub(x[c], Mean(x)), RSub(y[c], Mean(y)))],
                   Len(x)),
              Num(Len(x) - 1))
\* var(xs, na.rm = TRUE)
VarNaRm(xs) == Cov(NaRm(xs), NaRm(xs))

\* ---- square roots: sign * sqrt(sq), NaN when sq is ----
NaNRoot == [sign |-> 0, sq |-> NaN]
Sqrt(r) == IF IsNaN(r) \/ r.num < 0 THEN NaNRoot
           ELSE [sign |-> IF r.num = 0 THEN 0 ELSE 1, sq |-> r]
RootMul(a, b) == IF IsNaN(a.sq) \/ IsNaN(b.sq) THEN NaNRoot
                 ELSE [sign |-> a.sign * b.sign, sq |-> RMul(a.sq, b.sq)]
Sign(r) == IF r.num > 0 THEN 1 ELSE IF r.num < 0 THEN -1 ELSE 0
\* cor(x, y): NA when a value is missing or a standard deviation is zero
Cor(x, y) ==
    LET vx == Cov(x, x)
        vy == Cov(y, y)
        c == Cov(x, y)
    IN  IF IsNaN(c) \/ IsNaN(vx) \/ IsNaN(vy) \/ vx.num = 0 \/ vy.num = 0 THEN NaNRoot
        ELSE [sign |-> Sign(c), sq |-> RDiv(RMul(c, c), RMul(vx, vy))]

\* ---- the inputs ----
DropseqRows == {<<1, 1, 1>>, <<1, 2, 1>>}
EstimateRows == {<<1, 1, 1>>, <<2, 1, 1>>, <<1, 1, 2>>}
SeRows == {<<0, 0, 0>>, <<1, 1, 1>>}
\* the data may have the gene count the loop is written for, one fewer or one more
GeneCounts == {g \in {NumGenes - 1, NumGenes, NumGenes + 1} : g >= 1}
\* every gene of the count matrix has the same counts: the matrix only sets the size factors
DropseqInputs == {[i \in 1..g |-> row] : g \in GeneCounts, row \in DropseqRows}
\* what saver() may return for a count matrix: estimates and standard errors of its shape
SaverOutcomes(counts) ==
    {[estimate |-> est, se |-> se] :
        est \in [1..Len(counts) -> EstimateRows], se \in [1..Len(counts) -> SeRows]}

\* ---- the notebook's expressions ----
nrow(m) == Len(m)
ncol(m) == IF Len(m) = 0 THEN 0 ELSE Len(m[1])
RECURSIVE ColTotal(_, _, _)
ColTotal(m, c, n) == IF n = 0 THEN 0 ELSE ColTotal(m, c, n - 1) + m[n][c]
colSums(m) == [c \in 1..ncol(m) |-> Num(ColTotal(m, c, nrow(m)))]
NumRow(row) == [c \in 1..Len(row) |-> Num(row[c])]
\* colSums(dropseq_data)/mean(colSums(dropseq_data))
SizeFactors(counts) ==
    [c \in 1..ncol(counts) |-> RDiv(colSums(counts)[c], Mean(colSums(counts)))]

(* (mutant) the ratio upside down *)
Shrinkage_inverted(v, m) == Sqrt(RDiv(RAdd(v, m), v))

\* sqrt(v / (v + m))
Shrinkage(v, m) == Sqrt(RDiv(v, RAdd(v, m)))
\* the right-hand side of adj.vec[i] <- ...
Adjustment(obj, factors, i) ==
    Shrinkage(VarNaRm(VecMul(NumRow(obj.estimate[i]), factors)),
              MeanNaRm(VecMul(VecMul(NumRow(obj.se[i]), NumRow(obj.se[i])),
                              VecMul(factors, factors))))
\* outer(x, y)
outer(x, y) == [i \in 1..Len(x) |-> [j \in 1..Len(y) |-> RootMul(x[i], y[j])]]
\* sweep(m, 2, factors, "*")
sweep(m, factors) == [i \in 1..nrow(m) |-> VecMul(NumRow(m[i]), factors)]
\* cor(t(m)): the correlations between the rows of m
cor(m) == [i \in 1..nrow(m) |-> [j \in 1..nrow(m) |-> Cor(m[i], m[j])]]
Conformable(a, b) == nrow(a) = nrow(b) /\ ncol(a) = ncol(b)
\* a * b, elementwise
Hadamard(a, b) == [i \in 1..nrow(a) |-> [j \in 1..ncol(a) |-> RootMul(a[i][j], b[i][j])]]

EstimatesCsv == "/data_volume/memento/saver/saver_estimates.csv"
CorrsCsv == "/data_volume/memento/saver/saver_corrs.csv"
SaverRunning == saver_exception = "none"

\* dropseq_data = readRDS('/data_volume/memento/saver/melanoma_dropseq.rds')
ReadDropseq ==
    /\ SaverRunning /\ OnlySaver /\ saver_pc = "read_dropseq"
    /\ dropseq_data' \in DropseqInputs
    /\ saver_pc' = "saver"
    /\ UNCHANGED <<saver_exception, saver_obj, rds_file, sf, adj_vec, adj_i, scale_factor,
                   temp_cor, saver_cor, csv_written>>

\* saver_obj = saver(dropseq_data, ncores=5)
RunSaver ==
    /\ SaverRunning /\ OnlySaver /\ saver_pc = "saver"
    /\ saver_obj' \in SaverOutcomes(dropseq_data)
    /\ saver_pc' = "save_rds"
    /\ UNCHANGED <<saver_exception, dropseq_data, rds_file, sf, adj_vec, adj_i,
                   scale_factor, temp_cor, saver_cor, csv_written>>

\* saveRDS(saver_obj, 'saver_melanoma.rds')
SaveRDS ==
    /\ SaverRunning /\ OnlySaver /\ saver_pc = "save_rds"
    /\ rds_file' = saver_obj
    /\ saver_pc' = "read_rds"
    /\ UNCHANGED <<saver_exception, dropseq_data, saver_obj, sf, adj_vec, adj_i,
                   scale_factor, temp_cor, saver_cor, csv_written>>

\* saver_obj <- readRDS('saver_melanoma.rds')
ReadRDS ==
    /\ SaverRunning /\ OnlySaver /\ saver_pc = "read_rds"
    /\ saver_obj' = rds_file
    /\ saver_pc' = "write_estimates"
    /\ UNCHANGED <<saver_exception, dropseq_data, rds_file, sf, adj_vec, adj_i,
                   scale_factor, temp_cor, saver_cor, csv_written>>

\* write.csv(saver_obj[['estimate']], '/data_volume/memento/saver/saver_estimates.csv')
WriteEstimates ==
    /\ SaverRunning /\ OnlySaver /\ saver_pc = "write_estimates"
    /\ csv_written' = Append(csv_written, [path |-> EstimatesCsv, content |-> saver_obj.estimate])
    /\ saver_pc' = "sf"
    /\ UNCHANGED <<saver_exception, dropseq_data, saver_obj, rds_file, sf, adj_vec, adj_i,
                   scale_factor, temp_cor, saver_cor>>

\* sf <- colSums(dropseq_data)/mean(colSums(dropseq_data))
ComputeSf ==
    /\ SaverRunning /\ OnlySaver /\ saver_pc = "sf"
    /\ sf' = SizeFactors(dropseq_data)
    /\ saver_pc' = "adj_init"
    /\ UNCHANGED <<saver_exception, dropseq_data, saver_obj, rds_file, adj_vec, adj_i,
                   scale_factor, temp_cor, saver_cor, csv_written>>

\* adj.vec <- rep(0, 12241); for (i in 1:12241)
InitAdjVec ==
    /\ SaverRunning /\ OnlySaver /\ saver_pc = "adj_init"
    /\ adj_vec' = [i \in 1..NumGenes |-> Sqrt(Num(0))]
    /\ adj_i' = 1
    /\ saver_pc' = IF NumGenes >= 1 THEN "adj_loop" ELSE "scale_factor"
    /\ UNCHANGED <<saver_exception, dropseq_data, saver_obj, rds_file, sf, scale_factor,
                   temp_cor, saver_cor, csv_written>>

\* adj.vec[i] <- sqrt(var(estimate[i, ]*sf) / (var(estimate[i, ]*sf) + mean(se[i, ]^2*sf^2)))
\* and the next i; estimate[i, ] past the last row is "subscript out of bounds"
AdjustGene ==
    /\ SaverRunning /\ OnlySaver /\ saver_pc = "adj_loop"
    /\ IF adj_i > nrow(saver_obj.estimate)
       THEN /\ saver_exception' = "subscript out of bounds"
            /\ UNCHANGED <<adj_vec, adj_i, saver_pc>>
       ELSE /\ adj_vec' = [adj_vec EXCEPT ![adj_i] = Adjustment(saver_obj, sf, adj_i)]
            /\ IF adj_i < NumGenes
               THEN adj_i' = adj_i + 1 /\ saver_pc' = "adj_loop"
               ELSE adj_i' = adj_i /\ saver_pc' = "scale_factor"
            /\ saver_exception' = "none"
    /\ UNCHANGED <<dropseq_data, saver_obj, rds_file, sf, scale_factor, temp_cor,
                   saver_cor, csv_written>>

\* scale.factor <- outer(adj.vec, adj.vec)
ScaleFactor ==
    /\ SaverRunning /\ OnlySaver /\ saver_pc = "scale_factor"
    /\ scale_factor' = outer(adj_vec, adj_vec)
    /\ saver_pc' = "temp_cor"
    /\ UNCHANGED <<saver_exception, dropseq_data, saver_obj, rds_file, sf, adj_vec, adj_i,
                   temp_cor, saver_cor, csv_written>>

\* temp.cor <- cor( t(sweep(saver_obj$estimate, 2, sf, "*")))
TempCor ==
    /\ SaverRunning /\ OnlySaver /\ saver_pc = "temp_cor"
    /\ temp_cor' = cor(sweep(saver_obj.estimate, sf))
    /\ saver_pc' = "saver_cor"
    /\ UNCHANGED <<saver_exception, dropseq_data, saver_obj, rds_file, sf, adj_vec, adj_i,
                   scale_factor, saver_cor, csv_written>>

\* saver.cor <- temp.cor*scale.factor
SaverCor ==
    /\ SaverRunning /\ OnlySaver /\ saver_pc = "saver_cor"
    /\ IF Conformable(temp_cor, scale_factor)
       THEN /\ saver_cor' = Hadamard(temp_cor, scale_factor)
            /\ saver_pc' = "write_corrs"
            /\ saver_exception' = "none"
       ELSE /\ saver_exception' = "non-conformable arrays"
            /\ UNCHANGED <<saver_cor, saver_pc>>
    /\ UNCHANGED <<dropseq_data, saver_obj, rds_file, sf, adj_vec, adj_i, scale_factor,
                   temp_cor, csv_written>>

\* write.csv(saver.cor, '/data_volume/memento/saver/saver_corrs.csv')
WriteCorrs ==
    /\ SaverRunning /\ OnlySaver /\ saver_pc = "write_corrs"
    /\ csv_written' = Append(csv_written, [path |-> CorrsCsv, content |-> saver_cor])
    /\ saver_pc' = "done"
    /\ UNCHANGED <<saver_exception, dropseq_data, saver_obj, rds_file, sf, adj_vec, adj_i,
                   scale_factor, temp_cor, saver_cor>>

NextSaver ==
    \/ ReadDropseq \/ RunSaver \/ SaveRDS \/ ReadRDS \/ WriteEstimates \/ ComputeSf
    \/ InitAdjVec \/ AdjustGene \/ ScaleFactor \/ TempCor \/ SaverCor \/ WriteCorrs

(***************************************************************************)
(* Claims about the SAVER comparison notebook.                             *)
(***************************************************************************)
AtMostOne(r) == ~IsNaN(r.sq) /\ r.sq.num <= r.sq.den
\* temp.cor is a correlation matrix: no entry missing, every entry in [-1, 1], symmetric
ValidTempCor ==
    /\ \A i \in 1..nrow(temp_cor) : \A j \in 1..nrow(temp_cor) :
          AtMostOne(temp_cor[i][j]) /\ temp_cor[i][j] = temp_cor[j][i]
\* the variance and the mean squared standard error of gene i, as the loop computes them
GeneVariance(i) == VarNaRm(VecMul(NumRow(saver_obj.estimate[i]), sf))
GeneNoise(i) ==
    MeanNaRm(VecMul(VecMul(NumRow(saver_obj.se[i]), NumRow(saver_obj.se[i])), VecMul(sf, sf)))
ValidVariances ==
    \A i \in 1..nrow(saver_obj.estimate) :
        /\ ~IsNaN(GeneVariance(i)) /\ GeneVariance(i).num >= 0
        /\ ~IsNaN(GeneNoise(i)) /\ GeneNoise(i).num >= 0
        /\ GeneVariance(i).num + GeneNoise(i).num > 0

\* C8: saver.cor is symmetric and every entry of it is in [-1, 1], whenever temp.cor is a
\* symmetric correlation matrix and the per-gene variances and mean squared standard
\* errors are non-negative and not both zero.
C8_SaverCorSymmetricBounded ==
    (saver_cor # <<>> /\ ValidTempCor /\ ValidVariances) =>
        \A i \in 1..nrow(saver_cor) : \A j \in 1..ncol(saver_cor) :
            /\ saver_cor[i][j] = saver_cor[j][i]
            /\ AtMostOne(saver_cor[i][j])

\* saver.cor has been computed from valid inputs, with a gene that is shrunk and two
\* genes that are negatively correlated
C8_Witness ==
    /\ saver_pc = "done"
    /\ ValidTempCor /\ ValidVariances
    /\ \E i \in 1..nrow(saver_cor) : saver_cor[i][i].sq.num < saver_cor[i][i].sq.den
    /\ \E i \in 1..nrow(saver_cor) : \E j \in 1..nrow(saver_cor) : saver_cor[i][j].sign = -1

One == [sign |-> 1, sq |-> Num(1)]
AdjVecComputed == saver_pc \in {"scale_factor", "temp_cor", "saver_cor", "write_corrs", "done"}

\* C17: once the loop has run there is exactly one factor adj.vec[i] per gene row of the
\* estimate matrix; whenever v_i + m_i > 0 it lies in [0, 1] and is 1 exactly when
\* m_i = 0; and each diagonal entry of saver.cor equals adj.vec[i]^2 and is at most 1.
C17_ReliabilityFactor ==
    /\ AdjVecComputed =>
          /\ Len(adj_vec) = nrow(saver_obj.estimate)
          /\ \A i \in 1..Len(adj_vec) :
                (~IsNaN(RAdd(GeneVariance(i), GeneNoise(i)))
                   /\ RAdd(GeneVariance(i), GeneNoise(i)).num > 0) =>
                    /\ adj_vec[i].sign >= 0 /\ AtMostOne(adj_vec[i])
                    /\ adj_vec[i] = One <=> GeneNoise(i).num = 0
    /\ saver_cor # <<>> =>
          \A i \in 1..nrow(saver_cor) :
              /\ saver_cor[i][i] = RootMul(adj_vec[i], adj_vec[i])
              /\ AtMostOne(saver_cor[i][i])

(***************************************************************************)
(*                   THE HELPER drop_zero_col                              *)
(***************************************************************************)
\* the tables of up to MaxDfCols columns and MaxDfRows rows
DataFrames ==
    UNION {{[columns |-> [c \in 1..nc |-> "c" \o ToString(c)], rows |-> rows] :
               rows \in [1..nr -> [1..nc -> {0, 1}]]} :
           nc \in 0..MaxDfCols, nr \in 0..MaxDfRows}
\* df[:, keep] for a sequence of column positions
TakeColumns(t, keep) ==
    [columns |-> [k \in 1..Len(keep) |-> t.columns[keep[k]]],
     rows |-> [r \in 1..Len(t.rows) |-> [k \in 1..Len(keep) |-> t.rows[r][keep[k]]]]]

(* (mutant) all in place of any *)
drop_zero_col_all(t) ==
    TakeColumns(t, IndicesWhere(Len(t.columns),
                                {c \in 1..Len(t.columns) :
                                    \A r \in 1..Len(t.rows) : t.rows[r][c] # 0}))

\* df.loc[:, (df != 0).any(axis=0)].copy()
drop_zero_col(t) ==
    TakeColumns(t, IndicesWhere(Len(t.columns),
                                {c \in 1..Len(t.columns) :
                                    \E r \in 1..Len(t.rows) : t.rows[r][c] # 0}))

\* zero_dropped = drop_zero_col(df)
DropZeroCol ==
    /\ OnlyCalls /\ dzc_pc = "call"
    /\ zero_dropped' = drop_zero_col(df)
    /\ dzc_pc' = "again"
    /\ UNCHANGED <<df, zero_dropped_twice, conditions, formatted>>

\* zero_dropped_twice = drop_zero_col(zero_dropped)
DropZeroColAgain ==
    /\ OnlyCalls /\ dzc_pc = "again"
    /\ zero_dropped_twice' = drop_zero_col(zero_dropped)
    /\ dzc_pc' = "done"
    /\ UNCHANGED <<df, zero_dropped, conditions, formatted>>

NextDropZeroCol == DropZeroCol \/ DropZeroColAgain

NonZeroColumns(t) ==
    {c \in 1..Len(t.columns) : \E r \in 1..Len(t.rows) : t.rows[r][c] = 1}
\* the result is the columns of df with a non-zero entry, in order, all rows kept
ExactlyNonZeroColumns ==
    /\ Len(zero_dropped.rows) = Len(df.rows)
    /\ \E f \in [1..Len(zero_dropped.columns) -> 1..Len(df.columns)] :
          /\ \A k \in DOMAIN f : \A l \in DOMAIN f : k < l => f[k] < f[l]
          /\ {f[k] : k \in DOMAIN f} = NonZeroColumns(df)
          /\ \A k \in DOMAIN f :
                /\ zero_dropped.columns[k] = df.columns[f[k]]
                /\ \A r \in 1..Len(df.rows) : zero_dropped.rows[r][k] = df.rows[r][f[k]]

\* C18: drop_zero_col(df) is a table of exactly the columns of df that have a non-zero
\* entry, in their original order and with every row kept; the call leaves df as it
\* was; and applying it to its own result changes nothing.
C18_DropZeroCol ==
    /\ [](dzc_pc # "call" => ExactlyNonZeroColumns)
    /\ [](dzc_pc = "done" => zero_dropped_twice = zero_dropped)
    /\ [][df' = df]_vars

\* applied twice to a table that has a zero column between two non-zero ones
C18_Witness ==
    /\ dzc_pc = "done"
    /\ Len(df.rows) >= 2
    /\ NonZeroColumns(df) = {1, 3}

(***************************************************************************)
(*                   THE PATH TEMPLATES                                    *)
(***************************************************************************)
\* the string a path is: its pieces concatenated
RECURSIVE Join(_)
Join(path) == IF path = <<>> THEN "" ELSE Join(SubSeq(path, 1, Len(path) - 1)) \o path[Len(path)]

\* the conditions of the loops, each with the template that formats it: the power loop
\* over the configured cell types and those of the cg_cov columns, the downsampling loop
\* and the subsampling loop
Conditions ==
    {<<t, pop, ct, num_ind, resample>> :
        t \in {"meq", "mem"}, pop \in Range(pops),
        ct \in Range(InitialCts) \cup UNION {Range(col) : col \in CgCovInputs},
        num_ind \in Range(num_inds), resample \in 0..(num_resample - 1)}
    \cup {<<t, rate, replicate>> :
            t \in {"raw", "norm"}, rate \in 1..Len(subsample_rates),
            replicate \in 0..(NumReplicates - 1)}
    \cup {<<"sample", NCells, replicate>> : replicate \in 0..(NumSampleReplicates - 1)}
\* the path of a condition, as the loop body formats it
PathOf(c) ==
    CASE c[1] = "meq" -> Join(MeqPath(c[2], c[3], c[4], c[5]))
      [] c[1] = "mem" -> Join(MemPath(c[2], c[3], c[4], c[5]))
      [] c[1] = "raw" -> Join(RawPath(subsample_rates[c[2]], c[3]))
      [] c[1] = "norm" -> Join(NormPath(subsample_rates[c[2]], c[3]))
      [] c[1] = "sample" -> Join(SamplePath(c[2], c[3]))

\* the paths of the two conditions are formatted
FormatPaths ==
    /\ OnlyCalls /\ formatted = <<>> /\ conditions # <<>>
    /\ formatted' = <<PathOf(conditions[1]), PathOf(conditions[2])>>
    /\ UNCHANGED <<df, dzc_pc, zero_dropped, zero_dropped_twice, conditions>>

\* C15: two different conditions of the enumerated sets, under the input templates of
\* the power loop or the output templates of the downsampling and subsampling loops,
\* never give the same path.
C15_DistinctConditionsDistinctPaths ==
    (formatted # <<>> /\ conditions[1] # conditions[2]) => formatted[1] # formatted[2]

\* two conditions of one template that differ in the replicate only have been formatted
C15_Witness ==
    /\ formatted # <<>>
    /\ conditions[1][1] = "meq" /\ conditions[2][1] = "meq"
    /\ conditions[1][3] = conditions[2][3] /\ conditions[1][4] = conditions[2][4]
    /\ conditions[1][5] # conditions[2][5]
    /\ Len(formatted[1]) = Len(formatted[2])

(***************************************************************************)
(* The specifications: one notebook is run, the others are not started.    *)
(***************************************************************************)
InitPower ==
    PowerNotStarted /\ SimNotStarted /\ dataset = Unassigned /\ SaverNotStarted /\ NoCalls
SpecPower == InitPower /\ [][NextPower]_vars

InitSimulation ==
    PowerNotStarted /\ dataset \in Datasets /\ SimNotStarted /\ SaverNotStarted /\ NoCalls
SpecSim == InitSimulation /\ [][NextSim]_vars

InitSaver ==
    PowerNotStarted /\ SimNotStarted /\ dataset = Unassigned /\ SaverNotStarted /\ NoCalls
SpecSaver == InitSaver /\ [][NextSaver]_vars

InitDropZeroCol ==
    /\ PowerNotStarted /\ SimNotStarted /\ dataset = Unassigned /\ SaverNotStarted
    /\ df \in DataFrames
    /\ dzc_pc = "call" /\ zero_dropped = EmptyFrame /\ zero_dropped_twice = EmptyFrame
    /\ conditions = <<>> /\ formatted = <<>>
SpecDropZeroCol == InitDropZeroCol /\ [][NextDropZeroCol]_vars

InitPaths ==
    /\ PowerNotStarted /\ SimNotStarted /\ dataset = Unassigned /\ SaverNotStarted
    /\ df = EmptyFrame
    /\ dzc_pc = "call" /\ zero_dropped = EmptyFrame /\ zero_dropped_twice = EmptyFrame
    /\ conditions \in Conditions \X Conditions /\ formatted = <<>>
SpecPaths == InitPaths /\ [][FormatPaths]_vars

====
